---------------------------- MODULE Spec2Model ----------------------------
(***************************************************************************)
(* Model of interview/questions/1/ordered_resources.py (the pool of        *)
(* ordered resources, its probe primitive and `locate`) and of             *)
(* interview/questions/2/app.py (the routes of the mock server) and of      *)
(* interview/questions/2/client.py (query_synchronized_resources).          *)
(***************************************************************************)
EXTENDS Integers, Sequences, FiniteSets, TLC

\* ------------------------------------------------------------------ bounds
\* Largest pool size that is explored.
MaxSize == 16

\* Largest size passed to the constructor.
MaxNew == 3

\* Calls are accepted while both counters are at most MaxCount.
MaxCount == 3

\* Number of server threads handling requests concurrently.
NumThreads == 2

\* Largest resource id an endpoint may expose or a request may name.
MaxResource == 1

\* Largest number of resource ids passed to query_synchronized_resources.
MaxArgs == 2

\* ------------------------------------------------------- program constants
\* The literal of `if self._free_count > 2` (ordered_resources.py:89).
FreeBudget == 2

VARIABLES
    alive,                      \* a constructed OrderedResources object exists
    size,                       \* self.size
    first_available_resource,   \* self._first_available_resource
    free_count,                 \* self._free_count
    busy_count,                 \* self._busy_count
    pc,                         \* "idle" | "loop" (inside locate's for) | "done"
    i,                          \* locate: loop variable
    cache,                      \* locate: dict index -> bool
    free_resource_found,        \* locate: flag
    probes,                     \* indices locate passed to is_resource_free, in order
    call,                       \* the last call: [name, arg]
    raised,                     \* exception the last call ended with, or "none"
    answer,                     \* <<b>> if the last is_resource_free call returned b
    next_free,                  \* <<n>> if the last locate call returned n
    observed,                   \* history: <<index, answer>> of every answer the pool gave
    queries,                    \* history: is_resource_free calls that passed line 80
    locked,                     \* app.py: REGISTRY[endpoint].lock is held
    req,                        \* app.py: the request each thread handles
    last_ok,                    \* history: method of the last 200 per endpoint
    resources,                  \* app.py: REGISTRY[endpoint].resources
    resource_id,                \* app.py: <resource_id> of each thread's GET
    cpc,                        \* client.py: where each client's call stands
    resource_ids,               \* client.py: the ids the call was given
    endpoints,                  \* client.py: result of _find_endpoints_for_resources
    locked_endpoints,           \* client.py: result of _lock_endpoints so far
    cursor,                     \* client.py: position of the running for loop
    pending,                    \* client.py: submitted fetches that have not run
    error,                      \* client.py: exception the call has met, or "none"
    unlock_sent                 \* history: endpoints the call sent an unlock request to

poolVars == <<alive, size, first_available_resource, free_count, busy_count>>
frameVars == <<pc, i, cache, free_resource_found, probes>>
callVars == <<call, raised, answer, next_free>>

historyVars == <<observed, queries>>

resourceVars == <<poolVars, frameVars, callVars, historyVars>>
serverVars == <<locked, req, last_ok, resources, resource_id>>

clientVars ==
    <<cpc, resource_ids, endpoints, locked_endpoints, cursor, pending, error, unlock_sent>>

vars == <<resourceVars, serverVars, clientVars>>

\* ------------------------------------------------------------- helpers
\* The empty dict `{}` of line 101.
EmptyCache == [k \in {} |-> FALSE]

\* random.randint(a, b): any integer of a..b; the empty range raises ValueError.
randint(a, b) == a .. b

\* Line 80: index >= self.size.
OutOfBoundStrict(index, n) == index > n
out_of_bound(index, n) == index >= n

\* Line 83: index >= self._first_available_resource.
IsFreeStrict(index, first) == index > first
is_free(index, first) == index >= first

\* Line 89: self._free_count > 2, evaluated after the increment of line 86.
TooManyAtBudget(count) == count >= FreeBudget
TooManyLenient(count) == count > FreeBudget + 1
too_many(count) == count > FreeBudget

\* is_resource_free with the budget test made before the increment, so that a
\* refused query is not counted.
IsResourceFreeUncounted(index) ==
    IF out_of_bound(index, size)
    THEN [raised |-> "IndexOutOfBound", value |-> <<>>,
          free_count |-> free_count, busy_count |-> busy_count]
    ELSE IF is_free(index, first_available_resource)
         THEN IF too_many(free_count + 1)
              THEN [raised |-> "TooManyProbes", value |-> <<>>,
                    free_count |-> free_count, busy_count |-> busy_count]
              ELSE [raised |-> "none", value |-> <<TRUE>>,
                    free_count |-> free_count + 1, busy_count |-> busy_count]
         ELSE [raised |-> "none", value |-> <<FALSE>>,
               free_count |-> free_count, busy_count |-> busy_count + 1]

\* is_resource_free answering "busy" once the budget is used up instead of
\* raising TooManyProbes.
IsResourceFreeDegrading(index) ==
    IF out_of_bound(index, size)
    THEN [raised |-> "IndexOutOfBound", value |-> <<>>,
          free_count |-> free_count, busy_count |-> busy_count]
    ELSE IF is_free(index, first_available_resource) /\ ~too_many(free_count + 1)
         THEN [raised |-> "none", value |-> <<TRUE>>,
               free_count |-> free_count + 1, busy_count |-> busy_count]
         ELSE [raised |-> "none", value |-> <<FALSE>>,
               free_count |-> free_count, busy_count |-> busy_count + 1]

\* OrderedResources.is_resource_free as a function of the pool's state: the
\* exception raised (or "none"), the value returned and the counters after.
is_resource_free(index) ==
    IF out_of_bound(index, size)
    THEN [raised |-> "IndexOutOfBound", value |-> <<>>,
          free_count |-> free_count, busy_count |-> busy_count]
    ELSE IF is_free(index, first_available_resource)
         THEN IF too_many(free_count + 1)
              THEN [raised |-> "TooManyProbes", value |-> <<>>,
                    free_count |-> free_count + 1, busy_count |-> busy_count]
              ELSE [raised |-> "none", value |-> <<TRUE>>,
                    free_count |-> free_count + 1, busy_count |-> busy_count]
         ELSE [raised |-> "none", value |-> <<FALSE>>,
               free_count |-> free_count, busy_count |-> busy_count + 1]

\* The answers of the pool so far, with the outcome r of is_resource_free(index)
\* added when the call returned a value.
Observe(index, r) ==
    IF r.value = <<>> THEN observed ELSE observed \cup {<<index, r.value[1]>>}

\* The calls that passed the range test of line 80 so far, this one included.
Counted(index) == IF index < size THEN queries + 1 ELSE queries

\* No call is in progress.
Quiescent == pc \in {"idle", "done"}

\* Both counters are within the explored range.
WithinCount == free_count <= MaxCount /\ busy_count <= MaxCount

\* ------------------------------------------------------------ the pool
\* The state before any pool has been constructed.
InitNoPool ==
    /\ alive = FALSE
    /\ size = 0
    /\ first_available_resource = 0
    /\ free_count = 0
    /\ busy_count = 0

InitFrame ==
    /\ pc = "idle"
    /\ i = 0
    /\ cache = EmptyCache
    /\ free_resource_found = FALSE
    /\ probes = <<>>

InitCall ==
    /\ call = [name |-> "none", arg |-> 0]
    /\ raised = "none"
    /\ answer = <<>>
    /\ next_free = <<>>
    /\ observed = {}
    /\ queries = 0

\* The range the boundary is drawn from (line 63).
boundary_range(s) == randint(0, s - 1)

\* pool = OrderedResources(s): a failing constructor yields no object and the
\* previous pool, if any, stays bound.
OrderedResources(s) ==
    /\ UNCHANGED <<serverVars, clientVars>>
    /\ Quiescent
    /\ pc' = "idle"
    /\ call' = [name |-> "OrderedResources", arg |-> s]
    /\ answer' = <<>>
    /\ next_free' = <<>>
    /\ UNCHANGED <<i, cache, free_resource_found, probes>>
    /\ IF s < 0
       THEN /\ raised' = "NegativeSize"
            /\ UNCHANGED <<poolVars, historyVars>>
       ELSE IF boundary_range(s) = {}
            THEN /\ raised' = "ValueError"
                 /\ UNCHANGED <<poolVars, historyVars>>
            ELSE /\ raised' = "none"
                 /\ observed' = {}
                 /\ queries' = 0
                 /\ alive' = TRUE
                 /\ size' = s
                 /\ free_count' = 0
                 /\ busy_count' = 0
                 /\ first_available_resource' \in boundary_range(s)

\* pool.is_resource_free(index), called directly.
CallIsResourceFree(index) ==
    /\ UNCHANGED <<serverVars, clientVars>>
    /\ alive
    /\ Quiescent
    /\ WithinCount
    /\ LET r == is_resource_free(index) IN
        /\ raised' = r.raised
        /\ answer' = r.value
        /\ free_count' = r.free_count
        /\ busy_count' = r.busy_count
        /\ observed' = Observe(index, r)
        /\ queries' = Counted(index)
    /\ pc' = "idle"
    /\ call' = [name |-> "is_resource_free", arg |-> index]
    /\ next_free' = <<>>
    /\ UNCHANGED <<alive, size, first_available_resource>>
    /\ UNCHANGED <<i, cache, free_resource_found, probes>>

\* ------------------------------------------------------------- locate
\* Line 98: the exception raised for a pool of size 0.
EmptyPoolErrorMixedUp == "TooManyProbes"
empty_pool_error == "AllResourcesInUse"

\* Line 104: `for i in range(self.size)` runs the body while i < self.size ...
InRangeInclusive(k, n) == k <= n
in_range(k, n) == k < n

\* ... and steps to the next index.
NextIndexDoubling(k) == IF k = 0 THEN 1 ELSE 2 * k
next_index(k) == k + 1

\* Line 111: the index returned when a second free resource is seen.
PreviousIndexOff(k) == k
previous_index(k) == k - 1

\* Lines 97-102: the size test and the initialisation of the locals.
LocateEnter ==
    /\ UNCHANGED <<serverVars, clientVars>>
    /\ alive
    /\ Quiescent
    /\ WithinCount
    /\ call' = [name |-> "locate", arg |-> 0]
    /\ answer' = <<>>
    /\ next_free' = <<>>
    /\ probes' = <<>>
    /\ i' = 0
    /\ cache' = EmptyCache
    /\ free_resource_found' = FALSE
    /\ IF size = 0
       THEN raised' = empty_pool_error /\ pc' = "done"
       ELSE raised' = "none" /\ pc' = "loop"
    /\ UNCHANGED <<poolVars, historyVars>>

\* Lines 104-115: one iteration of `for i in range(self.size)`.
LocateIterate ==
    /\ UNCHANGED <<serverVars, clientVars>>
    /\ pc = "loop"
    /\ in_range(i, size)
    /\ UNCHANGED <<alive, size, first_available_resource, call, answer>>
    /\ LET hit == i \in DOMAIN cache
           r == is_resource_free(i)
           failed == ~hit /\ r.raised # "none"
       IN
        /\ probes' = IF hit THEN probes ELSE Append(probes, i)
        /\ free_count' = IF hit THEN free_count ELSE r.free_count
        /\ busy_count' = IF hit THEN busy_count ELSE r.busy_count
        /\ observed' = IF hit THEN observed ELSE Observe(i, r)
        /\ queries' = IF hit THEN queries ELSE Counted(i)
        /\ IF failed
           THEN /\ raised' = r.raised
                /\ pc' = "done"
                /\ UNCHANGED <<i, cache, free_resource_found, next_free>>
           ELSE LET c == IF hit THEN cache[i] ELSE r.value[1] IN
                /\ cache' = [k \in DOMAIN cache \cup {i} |->
                                IF k = i THEN c ELSE cache[k]]
                /\ raised' = "none"
                /\ IF c /\ free_resource_found
                   THEN /\ next_free' = <<previous_index(i)>>
                        /\ pc' = "done"
                        /\ UNCHANGED <<i, free_resource_found>>
                   ELSE /\ free_resource_found' = c
                        /\ i' = next_index(i)
                        /\ UNCHANGED <<pc, next_free>>

\* Lines 117-121: the loop is exhausted.
LocateExhausted ==
    /\ UNCHANGED <<serverVars, clientVars>>
    /\ pc = "loop"
    /\ ~in_range(i, size)
    /\ pc' = "done"
    /\ IF free_resource_found
       THEN /\ next_free' = <<size - 1>>
            /\ raised' = "none"
       ELSE /\ next_free' = <<>>
            /\ raised' = "AllResourcesInUse"
    /\ UNCHANGED <<poolVars, i, cache, free_resource_found, probes, call, answer>>
    /\ UNCHANGED historyVars

\* ---------------------------------------------------------- the server
\* The keys of REGISTRY (app.py, line 54) and a name that is not one of them.
EndpointNames == {"alpha", "beta"}
RequestedNames == EndpointNames \cup {"nowhere"}

Threads == 1 .. NumThreads

NoRequest == [method |-> "none", endpoint |-> "nowhere", status |-> 0]

\* A request is being handled: its handler has not answered yet.
InFlight(t) == req[t].method # "none" /\ req[t].status = 0

\* The resource ids an endpoint may expose, and every registry that
\* initialize_registry (lines 36-51) may build over the endpoint names.
ResourceIds == 0 .. MaxResource
Registries == [EndpointNames -> SUBSET ResourceIds]

\* One such registry.
SampleRegistry == [e \in EndpointNames |-> IF e = "alpha" THEN {0} ELSE {0, 1}]

InitLocks ==
    /\ locked = [e \in EndpointNames |-> FALSE]
    /\ req = [t \in Threads |-> NoRequest]
    /\ last_ok = [e \in EndpointNames |-> "none"]
    /\ resource_id = [t \in Threads |-> 0]

InitServer == InitLocks /\ resources = SampleRegistry

\* A request is routed to a thread that is not handling one (lines 65, 77).
Receive(t, method, endpoint) ==
    /\ ~InFlight(t)
    /\ req' = [req EXCEPT ![t] =
                  [method |-> method, endpoint |-> endpoint, status |-> 0]]
    /\ UNCHANGED <<locked, last_ok, resources, resource_id>>
    /\ UNCHANGED <<resourceVars, clientVars>>

\* Lock.acquire(blocking=False): succeeds exactly on a free lock, never waits.
AcquireReentrant(held) == [ok |-> TRUE, held |-> TRUE]
acquire(held) == [ok |-> ~held, held |-> TRUE]

\* Lock.release(): RuntimeError on a lock that is not held.
ReleaseSilent(held) == [ok |-> TRUE, held |-> FALSE]
release(held) == [ok |-> held, held |-> FALSE]

\* POST /<endpoint>/lock (lines 65-74).
lock(t) ==
    /\ InFlight(t)
    /\ req[t].method = "POST"
    /\ LET e == req[t].endpoint IN
        IF e \notin EndpointNames
        THEN /\ req' = [req EXCEPT ![t].status = 404]
             /\ UNCHANGED <<locked, last_ok>>
        ELSE LET a == acquire(locked[e]) IN
             /\ locked' = [locked EXCEPT ![e] = a.held]
             /\ IF a.ok
                THEN /\ req' = [req EXCEPT ![t].status = 200]
                     /\ last_ok' = [last_ok EXCEPT ![e] = "POST"]
                ELSE /\ req' = [req EXCEPT ![t].status = 403]
                     /\ UNCHANGED last_ok
    /\ UNCHANGED <<resources, resource_id>>
    /\ UNCHANGED <<resourceVars, clientVars>>

\* DELETE /<endpoint>/lock (lines 77-88).
unlock(t) ==
    /\ InFlight(t)
    /\ req[t].method = "DELETE"
    /\ LET e == req[t].endpoint IN
        IF e \notin EndpointNames
        THEN /\ req' = [req EXCEPT ![t].status = 404]
             /\ UNCHANGED <<locked, last_ok>>
        ELSE LET r == release(locked[e]) IN
             /\ locked' = [locked EXCEPT ![e] = r.held]
             /\ IF r.ok
                THEN /\ req' = [req EXCEPT ![t].status = 200]
                     /\ last_ok' = [last_ok EXCEPT ![e] = "DELETE"]
                ELSE /\ req' = [req EXCEPT ![t].status = 403]
                     /\ UNCHANGED last_ok
    /\ UNCHANGED <<resources, resource_id>>
    /\ UNCHANGED <<resourceVars, clientVars>>

\* A GET /<endpoint>/resource/<resource_id> request is routed to a thread that
\* is not handling one (line 91).
ReceiveGet(t, endpoint, rid) ==
    /\ ~InFlight(t)
    /\ req' = [req EXCEPT ![t] =
                  [method |-> "GET", endpoint |-> endpoint, status |-> 0]]
    /\ resource_id' = [resource_id EXCEPT ![t] = rid]
    /\ UNCHANGED <<locked, last_ok, resources>>
    /\ UNCHANGED <<resourceVars, clientVars>>

\* Line 100 reads `REGISTRY[endpoint].lock.locked` without calling it: the
\* bound method, which is truthy whether or not the lock is held.
locked_attribute(held) == TRUE

\* GET /<endpoint>/resource/<resource_id> (lines 91-105).
get(t) ==
    /\ InFlight(t)
    /\ req[t].method = "GET"
    /\ LET e == req[t].endpoint IN
        req' = [req EXCEPT ![t].status =
                  IF e \notin EndpointNames THEN 404
                  ELSE IF resource_id[t] \notin resources[e] THEN 404
                  ELSE IF ~locked_attribute(locked[e]) THEN 403
                  ELSE 200]
    /\ UNCHANGED <<locked, last_ok, resources, resource_id>>
    /\ UNCHANGED <<resourceVars, clientVars>>

\* ---------------------------------------------------------- the client
\* Each client is its own Client object and process; its requests are handled
\* by the server thread of the same number, one request at a time.
Clients == Threads

Range(s) == {s[n] : n \in 1 .. Len(s)}

\* The argument lists of query_synchronized_resources.
IdLists == UNION {[1 .. n -> ResourceIds] : n \in 0 .. MaxArgs}

\* registry.items() (line 72): the registry's endpoints in the order of the
\* /registry answer.
RegistryItems == <<"alpha", "beta">>

\* Line 73: resource_id in endpoint_info.resource_ids and endpoint not in endpoints.
SelectableAgain(registry, rid, endpoint, chosen) == rid \in registry[endpoint]
selectable(registry, rid, endpoint, chosen) ==
    rid \in registry[endpoint] /\ endpoint \notin Range(chosen)

\* Lines 72-75: the inner for, left by `break` at the first selectable endpoint.
RECURSIVE first_endpoint(_, _, _, _)
first_endpoint(registry, rid, chosen, n) ==
    IF n > Len(RegistryItems) THEN chosen
    ELSE IF selectable(registry, rid, RegistryItems[n], chosen)
         THEN Append(chosen, RegistryItems[n])
         ELSE first_endpoint(registry, rid, chosen, n + 1)

\* Lines 71-76: the outer for over resource_ids.
RECURSIVE find_endpoints_from(_, _, _, _)
find_endpoints_from(registry, ids, chosen, n) ==
    IF n > Len(ids) THEN chosen
    ELSE find_endpoints_from(registry, ids,
                             first_endpoint(registry, ids[n], chosen, 1), n + 1)

\* Client._find_endpoints_for_resources (lines 69-76).
find_endpoints_for_resources(registry, ids) ==
    find_endpoints_from(registry, ids, <<>>, 1)

\* Lines 193-198: one fetch per requested id and selected endpoint serving it.
fetches(registry, ids, chosen) ==
    {<<e, rid>> : e \in Range(chosen), rid \in Range(ids)} \cap
        {task \in EndpointNames \X ResourceIds : task[2] \in registry[task[1]]}

InitClients ==
    /\ cpc = [c \in Clients |-> "idle"]
    /\ resource_ids = [c \in Clients |-> <<>>]
    /\ endpoints = [c \in Clients |-> <<>>]
    /\ locked_endpoints = [c \in Clients |-> <<>>]
    /\ cursor = [c \in Clients |-> 1]
    /\ pending = [c \in Clients |-> {}]
    /\ error = [c \in Clients |-> "none"]
    /\ unlock_sent = [c \in Clients |-> {}]

\* The call has ended, by returning or by an exception.
Finished(c) == cpc[c] \in {"returned", "failed"}

\* query_synchronized_resources(*ids) is called (line 180).
query_synchronized_resources(c, ids) ==
    /\ cpc[c] = "idle" \/ Finished(c)
    /\ cpc' = [cpc EXCEPT ![c] = "called"]
    /\ resource_ids' = [resource_ids EXCEPT ![c] = ids]
    /\ endpoints' = [endpoints EXCEPT ![c] = <<>>]
    /\ locked_endpoints' = [locked_endpoints EXCEPT ![c] = <<>>]
    /\ cursor' = [cursor EXCEPT ![c] = 1]
    /\ pending' = [pending EXCEPT ![c] = {}]
    /\ error' = [error EXCEPT ![c] = "none"]
    /\ unlock_sent' = [unlock_sent EXCEPT ![c] = {}]
    /\ UNCHANGED <<resourceVars, serverVars>>

\* Steps 1 and 2 (lines 183-186): the registry is read and the endpoints chosen.
Discover(c) ==
    /\ cpc[c] = "called"
    /\ endpoints' = [endpoints EXCEPT ![c] =
                        find_endpoints_for_resources(resources, resource_ids[c])]
    /\ cpc' = [cpc EXCEPT ![c] = "locking"]
    /\ UNCHANGED <<resource_ids, locked_endpoints, cursor, pending, error>>
    /\ UNCHANGED unlock_sent
    /\ UNCHANGED <<resourceVars, serverVars>>

\* _lock_endpoint (lines 127-142): the POST is sent.
SendLock(c) ==
    /\ cpc[c] = "locking"
    /\ req[c] = NoRequest
    /\ cursor[c] <= Len(endpoints[c])
    /\ req' = [req EXCEPT ![c] = [method |-> "POST",
                                  endpoint |-> endpoints[c][cursor[c]],
                                  status |-> 0]]
    /\ UNCHANGED <<locked, last_ok, resources, resource_id>>
    /\ UNCHANGED <<resourceVars, clientVars>>

\* _lock_endpoints (lines 206-214) reads the answer: 200 appends the endpoint,
\* 403 (EndpointAlreadyLocked) is swallowed, 404 (EndpointNotFound) ends the call.
ReceiveLock(c) ==
    /\ cpc[c] = "locking"
    /\ req[c].method = "POST"
    /\ req[c].status # 0
    /\ req' = [req EXCEPT ![c] = NoRequest]
    /\ IF req[c].status = 404
       THEN /\ cpc' = [cpc EXCEPT ![c] = "failed"]
            /\ error' = [error EXCEPT ![c] = "EndpointNotFound"]
            /\ UNCHANGED <<locked_endpoints, cursor>>
       ELSE /\ locked_endpoints' = [locked_endpoints EXCEPT ![c] =
                    IF req[c].status = 200 THEN Append(@, req[c].endpoint) ELSE @]
            /\ cursor' = [cursor EXCEPT ![c] = @ + 1]
            /\ UNCHANGED <<cpc, error>>
    /\ UNCHANGED <<resource_ids, endpoints, pending>>
    /\ UNCHANGED unlock_sent
    /\ UNCHANGED <<locked, last_ok, resources, resource_id>>
    /\ UNCHANGED resourceVars

\* session.post of line 134 raises (the server cannot be reached): the
\* exception leaves _lock_endpoints and query_synchronized_resources.
LockRequestFails(c) ==
    /\ cpc[c] = "locking"
    /\ req[c] = NoRequest
    /\ cursor[c] <= Len(endpoints[c])
    /\ cpc' = [cpc EXCEPT ![c] = "failed"]
    /\ error' = [error EXCEPT ![c] = "RequestException"]
    /\ UNCHANGED <<resource_ids, endpoints, locked_endpoints, cursor, pending>>
    /\ UNCHANGED unlock_sent
    /\ UNCHANGED <<resourceVars, serverVars>>

\* Lines 192-198: the lock loop is over and every fetch is submitted.
SubmitFetches(c) ==
    /\ cpc[c] = "locking"
    /\ req[c] = NoRequest
    /\ cursor[c] > Len(endpoints[c])
    /\ cpc' = [cpc EXCEPT ![c] = "fetching"]
    /\ pending' = [pending EXCEPT ![c] =
                      fetches(resources, resource_ids[c], endpoints[c])]
    /\ UNCHANGED <<resource_ids, endpoints, locked_endpoints, cursor, error>>
    /\ UNCHANGED unlock_sent
    /\ UNCHANGED <<resourceVars, serverVars>>

\* _get_resource (lines 162-178): a submitted fetch sends its GET.
SendGet(c, task) ==
    /\ cpc[c] = "fetching"
    /\ req[c] = NoRequest
    /\ task \in pending[c]
    /\ pending' = [pending EXCEPT ![c] = @ \ {task}]
    /\ req' = [req EXCEPT ![c] = [method |-> "GET", endpoint |-> task[1],
                                  status |-> 0]]
    /\ resource_id' = [resource_id EXCEPT ![c] = task[2]]
    /\ UNCHANGED <<cpc, resource_ids, endpoints, locked_endpoints, cursor, error>>
    /\ UNCHANGED unlock_sent
    /\ UNCHANGED <<locked, last_ok, resources>>
    /\ UNCHANGED resourceVars

\* _get_resource reads the answer (lines 171-178): 403 and 404 raise.
ReceiveGetAnswer(c) ==
    /\ cpc[c] = "fetching"
    /\ req[c].method = "GET"
    /\ req[c].status # 0
    /\ req' = [req EXCEPT ![c] = NoRequest]
    /\ error' = [error EXCEPT ![c] =
                    IF @ # "none" THEN @
                    ELSE IF req[c].status = 403
                         THEN "TryingToAccessResourceOnUnlockedEndpoint"
                    ELSE IF req[c].status = 404 THEN "ResourceNotFound"
                    ELSE @]
    /\ UNCHANGED <<cpc, resource_ids, endpoints, locked_endpoints, cursor, pending>>
    /\ UNCHANGED unlock_sent
    /\ UNCHANGED <<locked, last_ok, resources, resource_id>>
    /\ UNCHANGED resourceVars

\* session.get of line 168 raises inside a submitted fetch (the server cannot
\* be reached); future.result() of line 199 re-raises it later.
GetRequestFails(c, task) ==
    /\ cpc[c] = "fetching"
    /\ req[c] = NoRequest
    /\ task \in pending[c]
    /\ pending' = [pending EXCEPT ![c] = @ \ {task}]
    /\ error' = [error EXCEPT ![c] = IF @ # "none" THEN @ ELSE "RequestException"]
    /\ UNCHANGED <<cpc, resource_ids, endpoints, locked_endpoints, cursor>>
    /\ UNCHANGED unlock_sent
    /\ UNCHANGED <<resourceVars, serverVars>>

\* Line 199 and the end of the `with` block of line 192: every fetch has run;
\* an exception of one of them leaves query_synchronized_resources here,
\* otherwise step 5 (line 202) starts.
CollectResults(c) ==
    /\ cpc[c] = "fetching"
    /\ req[c] = NoRequest
    /\ pending[c] = {}
    /\ cpc' = [cpc EXCEPT ![c] = IF error[c] # "none" THEN "failed" ELSE "unlocking"]
    /\ cursor' = [cursor EXCEPT ![c] = IF error[c] # "none" THEN @ ELSE 1]
    /\ UNCHANGED <<resource_ids, endpoints, locked_endpoints, pending, error>>
    /\ UNCHANGED unlock_sent
    /\ UNCHANGED <<resourceVars, serverVars>>

\* _unlock_endpoint (lines 144-160): the DELETE is sent.
SendUnlock(c) ==
    /\ cpc[c] = "unlocking"
    /\ req[c] = NoRequest
    /\ cursor[c] <= Len(locked_endpoints[c])
    /\ req' = [req EXCEPT ![c] = [method |-> "DELETE",
                                  endpoint |-> locked_endpoints[c][cursor[c]],
                                  status |-> 0]]
    /\ unlock_sent' = [unlock_sent EXCEPT ![c] = @ \cup {locked_endpoints[c][cursor[c]]}]
    /\ UNCHANGED <<cpc, resource_ids, endpoints, locked_endpoints, cursor, pending, error>>
    /\ UNCHANGED <<locked, last_ok, resources, resource_id>>
    /\ UNCHANGED resourceVars

\* _unlock_endpoints (lines 216-221) reads the answer: 403
\* (EndpointAlreadyUnlocked) is swallowed, 404 (EndpointNotFound) ends the call.
ReceiveUnlock(c) ==
    /\ cpc[c] = "unlocking"
    /\ req[c].method = "DELETE"
    /\ req[c].status # 0
    /\ req' = [req EXCEPT ![c] = NoRequest]
    /\ IF req[c].status = 404
       THEN /\ cpc' = [cpc EXCEPT ![c] = "failed"]
            /\ error' = [error EXCEPT ![c] = "EndpointNotFound"]
            /\ UNCHANGED cursor
       ELSE /\ cursor' = [cursor EXCEPT ![c] = @ + 1]
            /\ UNCHANGED <<cpc, error>>
    /\ UNCHANGED <<resource_ids, endpoints, locked_endpoints, pending>>
    /\ UNCHANGED unlock_sent
    /\ UNCHANGED <<locked, last_ok, resources, resource_id>>
    /\ UNCHANGED resourceVars

\* Line 204: return resource_states.
Return(c) ==
    /\ cpc[c] = "unlocking"
    /\ req[c] = NoRequest
    /\ cursor[c] > Len(locked_endpoints[c])
    /\ cpc' = [cpc EXCEPT ![c] = "returned"]
    /\ UNCHANGED <<resource_ids, endpoints, locked_endpoints, cursor, pending, error>>
    /\ UNCHANGED unlock_sent
    /\ UNCHANGED <<resourceVars, serverVars>>

\* ------------------------------------------------------ specifications
\* The program: pools come from the constructor only.
Init == InitNoPool /\ InitFrame /\ InitCall /\ InitServer /\ InitClients

Next ==
    \/ \E s \in -1 .. MaxNew : OrderedResources(s)
    \/ \E index \in -1 .. MaxNew : CallIsResourceFree(index)
    \/ LocateEnter
    \/ LocateIterate
    \/ LocateExhausted

Spec == Init /\ [][Next]_vars

\* locate as a function of the pool it is given: a fresh pool of any size with
\* the boundary anywhere in 0..size, the range the docstring of __init__ and the
\* harness (lines 144, 147) speak of.  As in the harness (lines 137-140) locate
\* is called once on each pool.
InitAnyPool ==
    /\ alive = TRUE
    /\ size \in 0 .. MaxSize
    /\ first_available_resource \in 0 .. size
    /\ free_count = 0
    /\ busy_count = 0

InitLocate == InitAnyPool /\ InitFrame /\ InitCall /\ InitServer /\ InitClients

NextLocate ==
    \/ call.name = "none" /\ LocateEnter
    \/ LocateIterate
    \/ LocateExhausted

SpecLocate == InitLocate /\ [][NextLocate]_vars

\* locate is an ordinary synchronous call: once called it keeps running until
\* it returns or raises.
SpecLocateFair == SpecLocate /\ WF_vars(NextLocate)

\* The server alone, its threads taking requests in any order.
InitApp == InitNoPool /\ InitFrame /\ InitCall /\ InitServer /\ InitClients

NextServer ==
    \/ \E t \in Threads, method \in {"POST", "DELETE"}, e \in RequestedNames :
          Receive(t, method, e)
    \/ \E t \in Threads : lock(t)
    \/ \E t \in Threads : unlock(t)

SpecServer == InitApp /\ [][NextServer]_vars

\* The server with its GET route, over every registry it may have built.
InitGet ==
    InitNoPool /\ InitFrame /\ InitCall /\ InitLocks /\ InitClients
    /\ resources \in Registries

NextGet ==
    \/ \E t \in Threads, method \in {"POST", "DELETE"}, e \in RequestedNames :
          Receive(t, method, e)
    \/ \E t \in Threads, e \in RequestedNames, rid \in ResourceIds :
          ReceiveGet(t, e, rid)
    \/ \E t \in Threads : lock(t)
    \/ \E t \in Threads : unlock(t)
    \/ \E t \in Threads : get(t)

SpecGet == InitGet /\ [][NextGet]_vars

\* Endpoint discovery and the lock requests that follow it, for one client
\* over every registry the server may have built.
InitDiscovery ==
    InitNoPool /\ InitFrame /\ InitCall /\ InitLocks /\ InitClients
    /\ resources \in Registries

NextDiscovery ==
    \/ \E ids \in IdLists : cpc[1] = "idle" /\ query_synchronized_resources(1, ids)
    \/ Discover(1)
    \/ SendLock(1)
    \/ lock(1)
    \/ ReceiveLock(1)
    \/ SubmitFetches(1)

SpecDiscovery == InitDiscovery /\ [][NextDiscovery]_vars

\* The clients, each making one call after another, against one server.
InitSystem == InitNoPool /\ InitFrame /\ InitCall /\ InitServer /\ InitClients

NextSystem ==
    \/ \E c \in Clients, ids \in IdLists : query_synchronized_resources(c, ids)
    \/ \E c \in Clients : Discover(c)
    \/ \E c \in Clients : SendLock(c)
    \/ \E c \in Clients : ReceiveLock(c)
    \/ \E c \in Clients : LockRequestFails(c)
    \/ \E c \in Clients : SubmitFetches(c)
    \/ \E c \in Clients, task \in EndpointNames \X ResourceIds : SendGet(c, task)
    \/ \E c \in Clients : ReceiveGetAnswer(c)
    \/ \E c \in Clients, task \in EndpointNames \X ResourceIds : GetRequestFails(c, task)
    \/ \E c \in Clients : CollectResults(c)
    \/ \E c \in Clients : SendUnlock(c)
    \/ \E c \in Clients : ReceiveUnlock(c)
    \/ \E c \in Clients : Return(c)
    \/ \E t \in Threads : lock(t)
    \/ \E t \in Threads : unlock(t)
    \/ \E t \in Threads : get(t)

SpecSystem == InitSystem /\ [][NextSystem]_vars

\* ---------------------------------------------------------- properties
Min(a, b) == IF a <= b THEN a ELSE b

\* The locate call has ended, by a return or by an exception.
LocateDone == pc = "done" /\ call.name = "locate"

\* C1: on a fresh pool of size >= 1 locate ends by returning exactly the
\* boundary (boundary < size), by AllResourcesInUse (boundary = size) or by
\* TooManyProbes; it never returns an index other than the boundary.
C1_LocateOutcome ==
    (LocateDone /\ size >= 1) =>
        \/ /\ first_available_resource < size
           /\ raised = "none"
           /\ next_free = <<first_available_resource>>
        \/ /\ first_available_resource = size
           /\ raised = "AllResourcesInUse"
           /\ next_free = <<>>
        \/ /\ raised = "TooManyProbes"
           /\ next_free = <<>>

\* The case the claim singles out: size 16, boundary 1.
C1_Witness ==
    /\ LocateDone
    /\ size = 16
    /\ first_available_resource = 1
    /\ next_free = <<1>>

\* C2: during locate on a fresh pool of size >= 1 the free counter never
\* exceeds the budget of 2 in any state, TooManyProbes is never raised, and
\* locate ends with an exception only when boundary = size.
C2_BudgetSafe ==
    size >= 1 =>
        /\ free_count <= FreeBudget
        /\ raised # "TooManyProbes"
        /\ (raised # "none" => first_available_resource = size)

\* locate has used both slots of the budget and returned.
C2_Witness ==
    /\ LocateDone
    /\ size >= 1
    /\ free_count = FreeBudget
    /\ raised = "none"
    /\ next_free # <<>>

\* C3: a query answered busy returns a value however many were made; a query
\* of a free index returns free while it is the first or second free answer
\* of the pool; every later one raises TooManyProbes, returns nothing and is
\* still counted (the free counter is above 2).
C3_ProbeBudget ==
    (call.name = "is_resource_free" /\ ~out_of_bound(call.arg, size)) =>
        IF call.arg < first_available_resource
        THEN raised = "none" /\ answer = <<FALSE>>
        ELSE IF free_count <= 2
             THEN raised = "none" /\ answer = <<TRUE>>
             ELSE raised = "TooManyProbes" /\ answer = <<>>

\* A third free answer was refused after more than two busy answers.
C3_Witness ==
    /\ call.name = "is_resource_free"
    /\ raised = "TooManyProbes"
    /\ free_count = 3
    /\ busy_count >= 3

\* C4 as stated: with boundary = 0 and size >= 1 locate first queries index 0,
\* uses exactly one slot (free counter 1, busy counter 0) and returns 0.
C4_OneSlot ==
    (LocateDone /\ size >= 1 /\ first_available_resource = 0) =>
        /\ probes # <<>>
        /\ probes[1] = 0
        /\ free_count = 1
        /\ busy_count = 0
        /\ next_free = <<0>>

\* C4 amended: with boundary = 0 and size >= 1 locate first queries index 0
\* and returns 0 with busy counter 0; it uses one slot when size = 1 and two
\* when size >= 2 (free counter = min(2, size)).
C4_FullyFree ==
    (LocateDone /\ size >= 1 /\ first_available_resource = 0) =>
        /\ probes # <<>>
        /\ probes[1] = 0
        /\ free_count = Min(2, size)
        /\ busy_count = 0
        /\ raised = "none"
        /\ next_free = <<0>>

\* A fully free pool of size >= 2 was located with both slots used.
C4_Witness ==
    /\ LocateDone
    /\ size >= 2
    /\ first_available_resource = 0
    /\ free_count = 2
    /\ next_free = <<0>>

\* C5: with boundary = size >= 1 locate ends with AllResourcesInUse, the free
\* counter is 0 in every state, and every index it queried was in range and
\* answered busy.
C5_FullyBusy ==
    (size >= 1 /\ first_available_resource = size) =>
        /\ free_count = 0
        /\ \A k \in 1 .. Len(probes) : probes[k] >= 0 /\ probes[k] < size
        /\ busy_count = Len(probes)
        /\ raised \in {"none", "AllResourcesInUse"}
        /\ LocateDone =>
            /\ raised = "AllResourcesInUse"
            /\ next_free = <<>>
            /\ Len(probes) = size

\* A fully busy pool of size >= 2 was scanned to the end.
C5_Witness ==
    /\ LocateDone
    /\ size >= 2
    /\ first_available_resource = size
    /\ raised = "AllResourcesInUse"
    /\ busy_count = size

C7_Construction ==
    call.name = "OrderedResources" =>
        /\ raised = "NegativeSize" <=> call.arg < 0
        /\ call.arg >= 0 =>
            /\ raised = "none"
            /\ alive
            /\ size = call.arg
            /\ free_count = 0
            /\ busy_count = 0
            /\ call.arg > 0 => first_available_resource \in 0 .. size - 1

\* C8: is_resource_free(index) with index >= size raises IndexOutOfBound and
\* leaves both counters unchanged; with index in 0 .. size - 1 it does not
\* raise IndexOutOfBound and adds one to exactly the counter of the
\* classification (index >= boundary: free, else busy).
C8_IndexRange ==
    [][\A index \in 0 .. MaxNew :
        CallIsResourceFree(index) =>
            IF index >= size
            THEN /\ raised' = "IndexOutOfBound"
                 /\ answer' = <<>>
                 /\ UNCHANGED <<free_count, busy_count>>
            ELSE /\ raised' # "IndexOutOfBound"
                 /\ IF index >= first_available_resource
                    THEN /\ free_count' = free_count + 1
                         /\ busy_count' = busy_count
                    ELSE /\ busy_count' = busy_count + 1
                         /\ free_count' = free_count]_vars

\* An out-of-range query was refused on a pool whose counters are not 0.
C8_Witness ==
    /\ call.name = "is_resource_free"
    /\ call.arg >= size
    /\ raised = "IndexOutOfBound"
    /\ free_count > 0
    /\ busy_count > 0

\* The galloping order: index 0, then 1, 2, 4, 8, ...
Gallop(k) == IF k = 1 THEN 0 ELSE 2 ^ (k - 2)

\* C9 as stated: until a free answer is seen the k-th query of locate is at
\* Gallop(k); for size 8 and boundary 5 index 3 is not queried before a
\* bracket is known.
C9_GallopingOrder ==
    free_count = 0 =>
        /\ \A k \in 1 .. Len(probes) : probes[k] = Gallop(k)
        /\ (size = 8 /\ first_available_resource = 5) =>
            \A k \in 1 .. Len(probes) : probes[k] # 3

\* C9 amended: locate probes in linear order, the k-th query at index k - 1,
\* with no doubling and no refinement; for size 8 and boundary 5 the indices
\* queried are 0 .. 6 in that order; the number of queries grows with the
\* boundary, being at least min(boundary + 1, size).
C9_LinearOrder ==
    /\ \A k \in 1 .. Len(probes) : probes[k] = k - 1
    /\ (LocateDone /\ size = 8 /\ first_available_resource = 5) =>
        probes = <<0, 1, 2, 3, 4, 5, 6>>
    /\ (LocateDone /\ size >= 1) =>
        Len(probes) >= Min(first_available_resource + 1, size)

\* The scenario of the claim has run to its end.
C9_Witness ==
    /\ LocateDone
    /\ size = 8
    /\ first_available_resource = 5
    /\ Len(probes) = 7
    /\ next_free = <<5>>

\* C10: a pending POST lock is always answerable at once (it never waits);
\* on a known endpoint it answers 200 exactly when the endpoint is unlocked
\* and 403 when it is locked, and the endpoint is locked afterwards; DELETE
\* lock answers 200 exactly when the endpoint is locked and 403 when it is
\* unlocked, and the endpoint is unlocked afterwards; both answer 404 for an
\* unknown endpoint and change no lock; no handler touches another endpoint's
\* lock; and a POST answered 200 is never preceded, as the last request
\* answered 200 on that endpoint, by another POST.
C10_LockProtocol ==
    /\ [](\A t \in Threads :
            (InFlight(t) /\ req[t].method = "POST") => ENABLED lock(t))
    /\ [][\A t \in Threads :
            LET e == req[t].endpoint
                m == req[t].method
                s == req'[t].status
            IN  (lock(t) \/ unlock(t)) =>
                    /\ \A o \in EndpointNames \ {e} : locked'[o] = locked[o]
                    /\ e \notin EndpointNames =>
                            s = 404 /\ locked' = locked
                    /\ (e \in EndpointNames /\ m = "POST") =>
                            /\ s = IF locked[e] THEN 403 ELSE 200
                            /\ locked'[e]
                            /\ s = 200 => last_ok[e] # "POST"
                    /\ (e \in EndpointNames /\ m = "DELETE") =>
                            /\ s = IF locked[e] THEN 200 ELSE 403
                            /\ ~locked'[e]]_vars

\* One thread's POST was refused on an endpoint another thread had locked,
\* after an earlier lock and unlock of the other endpoint.
C10_Witness ==
    /\ req[1] = [method |-> "POST", endpoint |-> "alpha", status |-> 403]
    /\ req[2] = [method |-> "POST", endpoint |-> "alpha", status |-> 200]
    /\ locked["alpha"]
    /\ last_ok["beta"] = "DELETE"

\* C16: every index locate passes to is_resource_free lies in 0 .. size - 1,
\* and locate never ends with IndexOutOfBound.
C16_ProbesInRange ==
    /\ \A k \in 1 .. Len(probes) : probes[k] \in 0 .. size - 1
    /\ raised # "IndexOutOfBound"
    /\ pc = "loop" => i \in 0 .. size

\* The last index of a pool was probed.
C16_Witness ==
    /\ LocateDone
    /\ size >= 2
    /\ probes # <<>>
    /\ probes[Len(probes)] = size - 1

\* The free counter as it was when the running (or last) locate call began:
\* the counter less the free-classified probes of this call.
EntryFree ==
    free_count - Cardinality({k \in 1 .. Len(probes) :
                                 probes[k] >= first_available_resource})

\* C18: a locate call begun with the free counter at 2 or more on a pool with
\* boundary < size ends with TooManyProbes: it returns no index and does not
\* raise AllResourcesInUse.
C18_SpentStaysSpent ==
    (LocateDone /\ first_available_resource < size /\ EntryFree >= FreeBudget) =>
        /\ raised = "TooManyProbes"
        /\ next_free = <<>>

\* A locate call on a pool whose two slots were already used has failed after
\* re-scanning the busy prefix.
C18_Witness ==
    /\ LocateDone
    /\ first_available_resource >= 1
    /\ first_available_resource < size
    /\ EntryFree = FreeBudget
    /\ raised = "TooManyProbes"
    /\ busy_count = 2 * first_available_resource

\* C19: locate terminates; on a fresh pool of size >= 1 it queries 0, 1, 2,
\* ... in strictly increasing order, each index at most once, and when it ends
\* it has made exactly min(boundary + 2, size) queries, with the busy counter
\* at boundary and the free counter at min(2, size - boundary).
C19_ScanLength ==
    /\ <>LocateDone
    /\ [](size >= 1 =>
            /\ \A k \in 1 .. Len(probes) - 1 : probes[k] < probes[k + 1]
            /\ probes # <<>> => probes[1] = 0
            /\ LocateDone =>
                /\ Len(probes) = Min(first_available_resource + 2, size)
                /\ probes[Len(probes)] = Len(probes) - 1
                /\ busy_count = first_available_resource
                /\ free_count = Min(2, size - first_available_resource))

\* A scan that stopped two queries past a boundary in the middle of the pool.
C19_Witness ==
    /\ LocateDone
    /\ size = 8
    /\ first_available_resource = 3
    /\ Len(probes) = 5
    /\ busy_count = 3
    /\ free_count = 2

\* C14: once the pool has answered free for an index a, a query of any index
\* j with a < j < size, direct or made by locate, is not answered busy: the
\* busy counter stays, the free counter goes up by one, and the call returns
\* free or raises TooManyProbes.
C14_Monotone ==
    [][\A j \in 0 .. MaxNew :
        (/\ CallIsResourceFree(j) \/ (LocateIterate /\ i = j)
         /\ j < size
         /\ \E a \in 0 .. j - 1 : <<a, TRUE>> \in observed)
        => /\ busy_count' = busy_count
           /\ free_count' = free_count + 1
           /\ <<j, FALSE>> \notin observed'
           /\ raised' \in {"none", "TooManyProbes"}]_vars

\* Index 0 was answered free and a later query of index 2 was refused.
C14_Witness ==
    /\ call.name = "is_resource_free"
    /\ call.arg = 2
    /\ <<0, TRUE>> \in observed
    /\ raised = "TooManyProbes"

\* C15: no index of a pool is ever answered both free and busy; a query of an
\* index answered busy before returns busy again, and a query of an index
\* answered free before returns free again or raises TooManyProbes.
C15_Idempotent ==
    /\ \A index \in 0 .. size - 1 :
          ~(<<index, TRUE>> \in observed /\ <<index, FALSE>> \in observed)
    /\ (call.name = "is_resource_free" /\ call.arg \in 0 .. size - 1) =>
          /\ <<call.arg, FALSE>> \in observed =>
                raised = "none" /\ answer = <<FALSE>>
          /\ <<call.arg, TRUE>> \in observed =>
                \/ raised = "none" /\ answer = <<TRUE>>
                \/ raised = "TooManyProbes" /\ answer = <<>>

\* An index answered free before was queried again and refused, after a busy
\* index had been queried too.
C15_Witness ==
    /\ call.name = "is_resource_free"
    /\ <<call.arg, TRUE>> \in observed
    /\ raised = "TooManyProbes"
    /\ \E index \in 0 .. size - 1 : <<index, FALSE>> \in observed

C11_GetNeedsLock ==
    [][\A t \in Threads :
        get(t) =>
            LET e == req[t].endpoint
                s == req'[t].status
            IN  IF e \notin EndpointNames \/ resource_id[t] \notin resources[e]
                THEN s = 404
                ELSE s = IF locked[e] THEN 200 ELSE 403]_vars

\* C13: once a call has chosen its endpoints, every chosen endpoint serves a
\* requested id, no endpoint is chosen twice, every requested id that some
\* endpoint of the registry serves is served by a chosen endpoint, and the
\* lock requests of the call go to chosen endpoints only.
C13_Discovery ==
    \A c \in Clients : cpc[c] \notin {"idle", "called"} =>
        LET chosen == endpoints[c]
            ids == Range(resource_ids[c])
        IN  /\ \A n \in 1 .. Len(chosen) :
                   chosen[n] \in EndpointNames /\ resources[chosen[n]] \cap ids # {}
            /\ \A m, n \in 1 .. Len(chosen) : m # n => chosen[m] # chosen[n]
            /\ \A rid \in ids :
                   (\E e \in EndpointNames : rid \in resources[e]) =>
                       \E n \in 1 .. Len(chosen) : rid \in resources[chosen[n]]
            /\ req[c].method = "POST" => req[c].endpoint \in Range(chosen)

\* Two endpoints were chosen for a list naming an id that both serve, and both
\* were locked.
C13_Witness ==
    /\ cpc[1] = "fetching"
    /\ Len(endpoints[1]) = 2
    /\ Len(locked_endpoints[1]) = 2
    /\ \E rid \in Range(resource_ids[1]) : \A e \in EndpointNames : rid \in resources[e]

\* C12: a call that has ended, by returning or by an exception of a lock or
\* fetch step, has sent an unlock request for every endpoint it locked.
C12_UnlockOnExit ==
    \A c \in Clients : Finished(c) => Range(locked_endpoints[c]) \subseteq unlock_sent[c]

\* C20: the server answers a client's fetch only while the endpoint is held by
\* a lock this client's call obtained and has not given back.
C20_FetchUnderOwnLock ==
    [][\A c \in Clients : (get(c) /\ req'[c].status = 200) =>
            LET e == req[c].endpoint
            IN  e \in Range(locked_endpoints[c]) /\ locked[e]]_vars

=============================================================================
